---------------------------- MODULE Spec2Model ----------------------------
(***************************************************************************)
(* A model of speech_dataset_wizard.py: the recording session             *)
(* (on_record_clicked / on_audio_record_timer_tick), the transcript       *)
(* ledger kept in the table widget and persisted to metadata.csv          *)
(* (add_transcription / create_transcript_csv / on_remove_sentence), the  *)
(* workspace bootstrap (on_update_settings), the sentence generator and   *)
(* the silence-trim batch (MainWindow.trim_silence).                      *)
(*                                                                         *)
(* Text is modelled as a sequence of one-character strings, so that       *)
(* formatting and parsing are computed and not assumed.  Audio is         *)
(* modelled as a sequence of samples, one per millisecond, each either    *)
(* digital silence (0) or full scale (1).                                  *)
(***************************************************************************)
EXTENDS Integers, Sequences, FiniteSets, TLC

(***************************************************************************)
(* Bounds of the model.                                                    *)
(***************************************************************************)
\* the table never grows beyond this many rows
MaxRows == 2
\* capture streams opened in one run of the model
MaxStreams == 2
\* timer ticks that read a buffer during one recording
MaxTicks == 1
\* length of the ledger texts given to the loader in SpecLedger
MaxText == 4
\* cells selected in the table when Remove Sentence is clicked
MaxSelect == 2
\* detect_leading_silence is given sounds of up to this many milliseconds
MaxSound == 5
\* and chunk sizes up to this many milliseconds
MaxChunk == 3
\* file names given to the natural sort have up to this many characters
MaxName == 2

(***************************************************************************)
(* Characters and strings.                                                 *)
(***************************************************************************)
\* the characters of the model in code-point order
CharOrder ==
  << "\n", " ", ".", "/",
     "0", "1", "2", "3", "4", "5", "6", "7", "8", "9",
     "a", "b", "c", "d", "e", "f", "g", "h", "i", "j", "k", "l", "m",
     "n", "o", "p", "q", "r", "s", "t", "u", "v", "w", "x", "y", "z", "|" >>

Ord(c) == CHOOSE i \in 1..Len(CharOrder) : CharOrder[i] = c

Digits == <<"0", "1", "2", "3", "4", "5", "6", "7", "8", "9">>

IsDigit(c) == \E i \in 1..10 : Digits[i] = c

DigitValue(c) == (CHOOSE i \in 1..10 : Digits[i] = c) - 1

IsSpace(c) == c \in {" ", "\n"}

Range(s) == {s[i] : i \in 1..Len(s)}

\* '{}'.format(n) for a natural number
RECURSIVE Str(_)
Str(n) == IF n < 10 THEN <<Digits[n + 1]>>
          ELSE Str(n \div 10) \o <<Digits[(n % 10) + 1]>>

\* int(s) for a run of digits
RECURSIVE IntOf(_)
IntOf(s) == IF s = <<>> THEN 0
            ELSE 10 * IntOf(SubSeq(s, 1, Len(s) - 1)) + DigitValue(s[Len(s)])

\* s[i:] starts with pat (i is 1-based)
MatchesAt(s, i, pat) ==
  /\ i + Len(pat) - 1 <= Len(s)
  /\ \A k \in 1..Len(pat) : s[i + k - 1] = pat[k]

\* str.replace(old, new): every non-overlapping occurrence, left to right
RECURSIVE ReplaceFrom(_, _, _, _)
ReplaceFrom(s, i, old, new) ==
  IF i > Len(s) THEN <<>>
  ELSE IF MatchesAt(s, i, old)
       THEN new \o ReplaceFrom(s, i + Len(old), old, new)
       ELSE <<s[i]>> \o ReplaceFrom(s, i + 1, old, new)

Replace(s, old, new) == ReplaceFrom(s, 1, old, new)

RECURSIVE LStrip(_)
LStrip(s) == IF s # <<>> /\ IsSpace(s[1]) THEN LStrip(Tail(s)) ELSE s

RECURSIVE RStrip(_)
RStrip(s) == IF s # <<>> /\ IsSpace(s[Len(s)])
             THEN RStrip(SubSeq(s, 1, Len(s) - 1)) ELSE s

\* str.strip()
Strip(s) == RStrip(LStrip(s))

\* str.split(sep) for a one-character separator: every occurrence splits
RECURSIVE SplitAcc(_, _, _)
SplitAcc(s, sep, cur) ==
  IF s = <<>> THEN <<cur>>
  ELSE IF s[1] = sep THEN <<cur>> \o SplitAcc(Tail(s), sep, <<>>)
       ELSE SplitAcc(Tail(s), sep, Append(cur, s[1]))

Split(s, sep) == SplitAcc(s, sep, <<>>)

\* file.readlines(): the lines of a text, each with its line break
RECURSIVE ReadLinesAcc(_, _)
ReadLinesAcc(text, cur) ==
  IF text = <<>> THEN (IF cur = <<>> THEN <<>> ELSE <<cur>>)
  ELSE IF text[1] = "\n"
       THEN <<Append(cur, "\n")>> \o ReadLinesAcc(Tail(text), <<>>)
       ELSE ReadLinesAcc(Tail(text), Append(cur, text[1]))

ReadLines(text) == ReadLinesAcc(text, <<>>)

RECURSIVE Join(_, _)
Join(parts, sep) ==
  IF parts = <<>> THEN <<>>
  ELSE IF Len(parts) = 1 THEN parts[1]
       ELSE parts[1] \o sep \o Join(Tail(parts), sep)

RECURSIVE Concat(_)
Concat(ss) == IF ss = <<>> THEN <<>> ELSE ss[1] \o Concat(Tail(ss))

\* the number of "/" a text starts with
RECURSIVE LeadingSlashes(_)
LeadingSlashes(s) ==
  IF s # <<>> /\ s[1] = "/" THEN 1 + LeadingSlashes(Tail(s)) ELSE 0

\* str(Path(s)): empty and "." components are dropped, the empty path is
\* ".".  The root of a path that starts with exactly two "/" is "//", that
\* of a path that starts with one or with three or more is "/"
PathStr(s) ==
  LET KeepPart(p) == p # <<>> /\ p # <<".">>
      parts == SelectSeq(Split(s, "/"), KeepPart)
      body  == Join(parts, <<"/">>)
      n     == LeadingSlashes(s)
      root  == IF n = 0 THEN <<>> ELSE IF n = 2 THEN <<"/", "/">> ELSE <<"/">>
  IN  IF root # <<>> THEN root \o body
      ELSE IF parts = <<>> THEN <<".">> ELSE body

\* str(Path(a) / b) for a relative b
PathJoin(a, b) ==
  IF PathStr(a) = <<".">> THEN PathStr(b)
  ELSE IF a[Len(a)] = "/" THEN PathStr(a \o b)
  ELSE PathStr(a \o <<"/">> \o b)

(***************************************************************************)
(* The ledger file: create_transcript_csv renders it, on_update_settings   *)
(* parses it.                                                              *)
(***************************************************************************)
\* '{}|{}\n'.format(recording_id, transcription)
FormatLine(recording_id, transcription) ==
  recording_id \o <<"|">> \o transcription \o <<"\n">>

\* the text create_transcript_csv writes for the rows of the table
RECURSIVE Persist(_)
Persist(rows) ==
  IF rows = <<>> THEN <<>>
  ELSE FormatLine(rows[1][1], rows[1][2]) \o Persist(Tail(rows))

\* a dict as the sequence of its (key, value) pairs in insertion order
DictHas(d, k) == \E i \in 1..Len(d) : d[i][1] = k

DictGet(d, k) == d[CHOOSE i \in 1..Len(d) : d[i][1] = k][2]

\* d[k] = v: a known key keeps its place and takes the new value
DictSet(d, k, v) ==
  IF DictHas(d, k)
  THEN [i \in 1..Len(d) |-> IF d[i][1] = k THEN <<k, v>> ELSE d[i]]
  ELSE Append(d, <<k, v>>)

\* a parser that takes a line without '|' as an id with no transcription
ParseLineLenient(line) ==
  LET parts == Split(line, "|")
  IN  IF Len(parts) = 2
      THEN [ok |-> TRUE, id |-> PathStr(Strip(parts[1])), text |-> Strip(parts[2])]
      ELSE [ok |-> Len(parts) = 1, id |-> PathStr(Strip(parts[1])), text |-> <<>>]

\* recording_id, transcription = map(str.strip, line.split('|')):
\* unpacking anything but two parts raises ValueError
ParseLine(line) ==
  LET parts == Split(line, "|")
  IN  IF Len(parts) = 2
      THEN [ok |-> TRUE, id |-> PathStr(Strip(parts[1])), text |-> Strip(parts[2])]
      ELSE [ok |-> FALSE, id |-> <<>>, text |-> <<>>]

\* the loop over transcript_file.readlines(); ok is FALSE when a line raised
RECURSIVE LoadLines(_, _)
LoadLines(lines, map) ==
  IF lines = <<>> THEN [ok |-> TRUE, map |-> map]
  ELSE LET e == ParseLine(lines[1])
       IN  IF e.ok THEN LoadLines(Tail(lines), DictSet(map, e.id, e.text))
           ELSE [ok |-> FALSE, map |-> <<>>]

Load(text) == LoadLines(ReadLines(text), <<>>)

(***************************************************************************)
(* natural_keys and the sorted list of WAV files.                          *)
(***************************************************************************)
\* re.split(r'(\d+)', text): runs of non-digits and digits in turn, the
\* first and the last a (possibly empty) run of non-digits
RECURSIVE SplitRuns(_, _, _)
SplitRuns(text, cur, indigits) ==
  IF text = <<>> THEN (IF indigits THEN <<cur, <<>> >> ELSE <<cur>>)
  ELSE IF IsDigit(text[1]) = indigits
       THEN SplitRuns(Tail(text), Append(cur, text[1]), indigits)
       ELSE <<cur>> \o SplitRuns(Tail(text), <<text[1]>>, ~indigits)

IsDigitRun(run) == run # <<>> /\ \A i \in 1..Len(run) : IsDigit(run[i])

\* a key that is the text itself: the order of plain strings
PlainKeys(text) == <<[isint |-> FALSE, n |-> 0, s |-> text]>>

\* [(int(c) if c.isdigit() else c) for c in re.split(r'(\d+)', text)]
natural_keys(text) ==
  LET runs == SplitRuns(text, <<>>, FALSE)
  IN  [i \in 1..Len(runs) |->
         IF IsDigitRun(runs[i])
         THEN [isint |-> TRUE, n |-> IntOf(runs[i]), s |-> <<>>]
         ELSE [isint |-> FALSE, n |-> 0, s |-> runs[i]]]

\* a < b for two str values: by code point, a proper prefix is smaller
RECURSIVE StrLess(_, _)
StrLess(a, b) ==
  IF b = <<>> THEN FALSE
  ELSE IF a = <<>> THEN TRUE
  ELSE IF a[1] = b[1] THEN StrLess(Tail(a), Tail(b))
  ELSE Ord(a[1]) < Ord(b[1])

\* the comparison of two key lists: "lt", "eq", "gt", or "TypeError" when
\* the first differing elements are an int and a str
RECURSIVE KeyCmp(_, _)
KeyCmp(a, b) ==
  IF a = <<>> /\ b = <<>> THEN "eq"
  ELSE IF a = <<>> THEN "lt"
  ELSE IF b = <<>> THEN "gt"
  ELSE IF a[1] = b[1] THEN KeyCmp(Tail(a), Tail(b))
  ELSE IF a[1].isint # b[1].isint THEN "TypeError"
  ELSE IF a[1].isint THEN (IF a[1].n < b[1].n THEN "lt" ELSE "gt")
  ELSE IF StrLess(a[1].s, b[1].s) THEN "lt" ELSE "gt"

\* the sequences without repetition of all elements of a set
RECURSIVE Orderings(_)
Orderings(S) ==
  IF S = {} THEN {<<>>}
  ELSE UNION {{<<x>> \o o : o \in Orderings(S \ {x})} : x \in S}

\* sorted(names, key=natural_keys): glob lists the names in any order and
\* the sort is stable, so names with equal keys may come in either order
SortedFiles(names) ==
  {o \in Orderings(names) :
     \A i \in 1..Len(o) : \A j \in 1..Len(o) :
        i < j => KeyCmp(natural_keys(o[i]), natural_keys(o[j])) \in {"lt", "eq"}}

(***************************************************************************)
(* Audio: detect_leading_silence and the trim of trim_silence.             *)
(***************************************************************************)
\* default chunk_size of detect_leading_silence, in milliseconds
chunk_size == 10
\* frames_per_buffer and rate of the capture stream
frames_per_buffer == 1024
rate == 22050
\* the milliseconds of audio one buffer holds (the fraction is dropped)
BufferMs == (frames_per_buffer * 1000) \div rate

Min(a, b) == IF a < b THEN a ELSE b
Max(a, b) == IF a < b THEN b ELSE a

\* a position of a slice, negative ones counted from the end
PyIndex(i, L) == IF i < 0 THEN Max(0, L + i) ELSE Min(i, L)

\* sound[a:b] of an AudioSegment, a and b in milliseconds: both are capped
\* at the length, a negative one is counted from the end
Slice(sound, a, b) ==
  LET L  == Len(sound)
      a1 == Min(a, L)
      b1 == Min(b, L)
      a2 == IF a1 < 0 THEN L + a1 ELSE a1
      b2 == IF b1 < 0 THEN L + b1 ELSE b1
  IN  SubSeq(sound, PyIndex(a2, L) + 1, PyIndex(b2, L))

\* segment.dBFS < silence_threshold: with samples that are digital silence
\* or full scale, a window is below -40 dBFS iff it has no full-scale
\* sample (the empty window has dBFS -infinity)
BelowThreshold(seg) == \A i \in 1..Len(seg) : seg[i] = 0

RECURSIVE ScanSilence(_, _, _)
ScanSilence(sound, trim_ms, chunk) ==
  IF BelowThreshold(Slice(sound, trim_ms, trim_ms + chunk)) /\ trim_ms < Len(sound)
  THEN ScanSilence(sound, trim_ms + chunk, chunk)
  ELSE trim_ms

detect_leading_silence(sound, chunk) == ScanSilence(sound, 0, chunk)

Reverse(sound) == [i \in 1..Len(sound) |-> sound[Len(sound) + 1 - i]]

\* sound[start_trim:len(sound)-end_trim]
TrimSound(sound) ==
  LET start_trim == detect_leading_silence(sound, chunk_size)
      end_trim   == detect_leading_silence(Reverse(sound), chunk_size)
  IN  Slice(sound, start_trim, Len(sound) - end_trim)

\* n samples of the same level
Tone(level, n) == [i \in 1..n |-> level]

(***************************************************************************)
(* The file system under the output directory, and the inputs.            *)
(***************************************************************************)
WAVS_SLASH == <<"w", "a", "v", "s", "/">>
DOT_WAV == <<".", "w", "a", "v">>

\* the dataset names the user types
DatasetNames == {<<"d">>, <<"e">>}

\* what the dataset name field can hold: a typed name, or nothing
NameTexts == DatasetNames \cup {<<>>}

DIR_O == <<"/", "o">>
DIR_P == <<"/", "p">>

\* the directories the user picks in the directory dialog
OutputDirectories == {DIR_O, DIR_P}

\* what QFileDialog.getExistingDirectory returns: a directory that exists,
\* or the empty text when the dialog is dismissed
DialogResults == OutputDirectories \cup {<<>>}

\* a dataset root that does not exist
NoDataset ==
  [dir |-> FALSE, wavs_dir |-> FALSE, wavs |-> <<>>,
   meta_exists |-> FALSE, meta |-> <<>>]

\* the root Path(directory) / name with nothing below it.  With no name
\* the root is the directory itself, which exists: a picked directory does,
\* and the empty directory text is the working directory
NoFiles(n) == IF n = <<>> THEN [NoDataset EXCEPT !.dir = TRUE] ELSE NoDataset

\* the files, by output directory text and dataset name text: the working
\* directory is none of the directories the user picks, so the roots are
\* nine different directories
EmptyDisk == [dir \in DialogResults |-> [n \in NameTexts |-> NoFiles(n)]]

U1 == <<"u", "1", ".", "w", "a", "v">>
U2 == <<"u", "2", ".", "w", "a", "v">>
U10 == <<"u", "1", "0", ".", "w", "a", "v">>

\* a dataset left by an earlier session that wrote the path-preserving
\* ids: u1.wav is not in the ledger, u10.wav is listed before u2.wav
SeededDataset ==
  [dir |-> TRUE, wavs_dir |-> TRUE,
   wavs |-> (U1 :> Tone(1, 3)) @@ (U2 :> (Tone(0, 10) \o Tone(1, 2)))
            @@ (U10 :> (Tone(1, 1) \o Tone(0, 10))),
   meta_exists |-> TRUE,
   meta |-> FormatLine(WAVS_SLASH \o U10, <<"y", "o">>)
            \o FormatLine(WAVS_SLASH \o U2, <<"h", "i">>)]

SeededDisk == [EmptyDisk EXCEPT ![DIR_O][<<"e">>] = SeededDataset]

\* the scenario of two WAV files of which the ledger lists one
ScenarioDataset ==
  [dir |-> TRUE, wavs_dir |-> TRUE,
   wavs |-> (U1 :> Tone(1, 3)) @@ (U2 :> Tone(0, 2)),
   meta_exists |-> TRUE,
   meta |-> FormatLine(WAVS_SLASH \o U1, <<"h", "i">>)]

ScenarioDisk == [EmptyDisk EXCEPT ![DIR_O][<<"e">>] = ScenarioDataset]

InitDisks == {EmptyDisk, ScenarioDisk}

\* the text files the user can add as generator sources
CorpusFiles == {"s"}

CorpusText(f) ==
  IF f = "s" THEN <<"h", "i", "\n", "a", "|", "b", "\n">>
  ELSE IF f = "t" THEN <<"a", "\n", "b", "\n", "c", "\n">>
  ELSE <<"y", "o", "\n", "\n">>

\* the text files SpecGenerator can add: s, t with the lines a, b, c, and u
\* with a blank line
GeneratorFiles == {"s", "t", "u"}

\* the levels of the buffers the capture device delivers
Levels == {0, 1}

\* str(Path(self.output_directory_label.text()) / self.dataset_name.text())
RootPath(dir, ds) == PathJoin(dir, ds)

\* str(waves_output_directory_path / name)
WavPath(dir, ds, name) == PathJoin(RootPath(dir, ds), WAVS_SLASH \o name)

\* glob('*.wav'): the names that end in .wav and do not start with a dot
GlobWav(names) ==
  {n \in names : /\ Len(n) >= Len(DOT_WAV)
                  /\ MatchesAt(n, Len(n) - Len(DOT_WAV) + 1, DOT_WAV)
                  /\ n[1] # "."}

\* the file of wavs/ a recording id names under the dataset root, as a
\* sequence of at most one name: the id must be wavs/<name> of a file
ResolveWav(d, recording_id) ==
  LET p == PathStr(recording_id)
      name == SubSeq(p, Len(WAVS_SLASH) + 1, Len(p))
  IN  IF d.wavs_dir /\ MatchesAt(p, 1, WAVS_SLASH) /\ name \in DOMAIN d.wavs
      THEN <<name>> ELSE <<>>

(***************************************************************************)
(* The state.                                                              *)
(***************************************************************************)
VARIABLES
  disk,                \* output directory -> dataset name -> the directory of
                       \* the dataset, its wavs/ and its metadata.csv
  table,               \* the rows <<recording id, transcription>> of self.table
  dataset_name,        \* self.dataset_name.text()
  output_directory,    \* self.output_directory_label.text()
  update_enabled,      \* self.update_settings.isEnabled()
  record_enabled,      \* self.record.isEnabled()
  generator_sources,   \* the items of self.generator_sources: <<file, lines>>
  generated_sentence,  \* self.generated_sentence_label.text()
  is_recording,        \* self.is_recording
  audio_stream,        \* self.audio_stream: 0 is None, else the stream
  open_streams,        \* the capture streams that are open
  streams_opened,      \* how many streams were opened so far
  frames,              \* self.current_audio_recording_frames
  timer_active,        \* self.audio_record_timer.isActive()
  start_sentence,      \* history: the prompt at the first click of the running
                       \* recording, <<>> when none runs
  trim_pc,             \* where trim_silence is: "idle", "phase1", "phase2"
  trim_i,              \* the loop index i of trim_silence
  trimmed_Y,           \* trimmed_Y of trim_silence
  canceled,            \* progress.wasCanceled()
  trim_writes,         \* files exported by the running or the last batch
  trim_result,         \* how the last batch ended: "none" while it runs
  raised,              \* the exception the last handler raised, or "none"
  ld_text,             \* SpecLedger: the text of a ledger file
  ld_result,           \* SpecLedger: what loading ld_text gave
  dls_sound,           \* SpecSilence: the sound given to detect_leading_silence
  dls_chunk,           \* SpecSilence: its chunk_size
  dls_result,          \* SpecSilence: what it returned
  nk_names,            \* SpecSort: the file names to sort
  nk_result            \* SpecSort: what sorted(..., key=natural_keys) gave

vars ==
  << disk, table, dataset_name, output_directory, update_enabled, record_enabled,
     generator_sources, generated_sentence, is_recording, audio_stream,
     open_streams, streams_opened, frames, timer_active, start_sentence,
     trim_pc, trim_i,
     trimmed_Y, canceled, trim_writes, trim_result, raised, ld_text, ld_result,
     dls_sound, dls_chunk, dls_result, nk_names, nk_result >>

ledger_vars == <<ld_text, ld_result>>

pure_vars == <<dls_sound, dls_chunk, dls_result, nk_names, nk_result>>

session_vars ==
  <<is_recording, audio_stream, open_streams, streams_opened, frames, timer_active,
    start_sentence>>

trim_vars == <<trim_pc, trim_i, trimmed_Y, canceled, trim_writes, trim_result>>

generator_vars == <<generator_sources, generated_sentence>>

NotLoaded == [ok |-> FALSE, map |-> <<>>, done |-> FALSE]

NotDetected == [done |-> FALSE, trim_ms |-> 0]

NotSorted == [done |-> FALSE, raised |-> FALSE, files |-> <<>>]

\* the functions were given nothing
PureIdle ==
  /\ dls_sound = <<>>
  /\ dls_chunk = chunk_size
  /\ dls_result = NotDetected
  /\ nk_names = {}
  /\ nk_result = NotSorted

\* Widget.__init__: the state of a freshly started application
WidgetInit ==
  /\ table = <<>>
  /\ dataset_name = <<>>
  /\ output_directory = <<>>
  /\ update_enabled = FALSE
  /\ record_enabled = FALSE
  /\ generator_sources = <<>>
  /\ generated_sentence = <<>>
  /\ is_recording = FALSE
  /\ audio_stream = 0
  /\ open_streams = {}
  /\ streams_opened = 0
  /\ frames = <<>>
  /\ timer_active = FALSE
  /\ start_sentence = <<>>
  /\ trim_pc = "idle"
  /\ trim_i = 0
  /\ trimmed_Y = <<>>
  /\ canceled = FALSE
  /\ trim_writes = 0
  /\ trim_result = "none"
  /\ raised = "none"

Init ==
  /\ disk \in InitDisks
  /\ WidgetInit
  /\ ld_text = <<>>
  /\ ld_result = NotLoaded
  /\ PureIdle

\* no modal progress dialog is up: the widgets take the user's input
Interactive == trim_pc = "idle"

\* check_update_settings_disable: Update is enabled iff there is a dataset
\* name and an output directory
check_update_settings_disable(name, dir) == name # <<>> /\ dir # <<>>

\* check_record_enable: a dataset name, an output directory that exists and
\* is no file (every directory the dialog gives is one), and a sentence
check_record_enable(name, dir, sentence) ==
  name # <<>> /\ (dir # <<>> /\ dir \in OutputDirectories) /\ sentence # <<>>

\* the files under Path(output_directory) / dataset_name
Dataset(dk, dir, ds) == dk[dir][ds]

\* a create_transcript_csv that appends the last row to the file it finds
WithLastRowAppended(d, rows) ==
  [d EXCEPT !.meta_exists = TRUE,
            !.meta = (IF d.meta_exists THEN d.meta ELSE <<>>)
                     \o (IF rows = <<>> THEN <<>>
                         ELSE FormatLine(rows[Len(rows)][1], rows[Len(rows)][2]))]

\* create_transcript_csv: the dataset with metadata.csv rewritten from rows
WithTranscript(d, rows) == [d EXCEPT !.meta_exists = TRUE, !.meta = Persist(rows)]

(***************************************************************************)
(* Settings and workspace bootstrap.                                       *)
(***************************************************************************)
\* the user changes the text of the dataset name field (to a name, or to
\* nothing): textChanged calls check_update_settings_disable
edit_dataset_name(n) ==
  /\ Interactive
  /\ n # dataset_name
  /\ dataset_name' = n
  /\ update_enabled' = check_update_settings_disable(n, output_directory)
  /\ raised' = "none"
  /\ UNCHANGED <<disk, table, output_directory, record_enabled, generator_vars,
                 session_vars, trim_vars, ledger_vars, pure_vars>>

\* the user clicks "..." and the dialog returns path; textChanged calls
\* check_update_settings_disable only when the text is another one
on_open_output_directory(path) ==
  /\ Interactive
  /\ output_directory' = path
  /\ update_enabled' = IF path # output_directory
                       THEN check_update_settings_disable(dataset_name, path)
                       ELSE update_enabled
  /\ raised' = "none"
  /\ UNCHANGED <<disk, table, dataset_name, record_enabled, generator_vars,
                 session_vars, trim_vars, ledger_vars, pure_vars>>

\* glob.glob(str(waves_output_directory_path / '*.wav'))
Glob(dir, ds, d) == {WavPath(dir, ds, n) : n \in GlobWav(DOMAIN d.wavs)}

\* str(Path(file).relative_to(output_directory_path))
RelativeTo(path, root) ==
  IF root = <<".">> THEN path
  ELSE SubSeq(path, Len(root) + 2, Len(path))

\* the loop over the sorted files: the rows for the files whose id is a
\* key of transcription_map
RECURSIVE ItemsToAdd(_, _, _)
ItemsToAdd(files, root, map) ==
  IF files = <<>> THEN <<>>
  ELSE LET recording_id == RelativeTo(files[1], root)
       IN  (IF DictHas(map, recording_id)
            THEN << <<recording_id, DictGet(map, recording_id)>> >>
            ELSE <<>>)
           \o ItemsToAdd(Tail(files), root, map)

\* the table after the loop of add_transcription(*item, recreate_csv=False)
AddItems(rows, items) == rows \o items

on_update_settings ==
  /\ Interactive
  /\ update_enabled
  /\ update_enabled' = FALSE
  /\ record_enabled' = check_record_enable(dataset_name, output_directory,
                                            generated_sentence)
  /\ LET d == [Dataset(disk, output_directory, dataset_name) EXCEPT !.dir = TRUE]
         root == RootPath(output_directory, dataset_name)
     IN  IF d.wavs_dir /\ d.meta_exists
         THEN LET loaded == Load(d.meta)
              IN  IF loaded.ok
                  THEN \E files \in SortedFiles(Glob(output_directory, dataset_name, d)) :
                         LET rows == AddItems(table, ItemsToAdd(files, root, loaded.map))
                         IN  /\ Len(rows) <= MaxRows
                             /\ table' = rows
                             /\ disk' = [disk EXCEPT ![output_directory][dataset_name] =
                                           WithTranscript(d, rows)]
                             /\ raised' = "none"
                  ELSE /\ table' = table
                       /\ disk' = [disk EXCEPT ![output_directory][dataset_name] = d]
                       /\ raised' = "ValueError"
         ELSE /\ table' = table
              /\ disk' = [disk EXCEPT ![output_directory][dataset_name] =
                            WithTranscript(d, table)]
              /\ raised' = "none"
  /\ UNCHANGED <<dataset_name, output_directory, generator_vars, session_vars,
                 trim_vars, ledger_vars, pure_vars>>

(***************************************************************************)
(* The sentence generator.                                                 *)
(***************************************************************************)
HasSource(f) == \E i \in 1..Len(generator_sources) : generator_sources[i][1] = f

on_add_generator_source(f) ==
  /\ Interactive
  /\ ~HasSource(f)
  /\ LET lines == ReadLines(CorpusText(f))
     IN  /\ Len(lines) # 0
         /\ generator_sources' = Append(generator_sources, <<f, lines>>)
  /\ raised' = "none"
  /\ UNCHANGED <<disk, table, dataset_name, output_directory, update_enabled, record_enabled,
                 generated_sentence, session_vars, trim_vars, ledger_vars, pure_vars>>

on_remove_generator_source(selected) ==
  /\ Interactive
  /\ selected # {}
  /\ LET Kept(item) == item[1] \notin selected
     IN  generator_sources' = SelectSeq(generator_sources, Kept)
  /\ raised' = "none"
  /\ UNCHANGED <<disk, table, dataset_name, output_directory, update_enabled, record_enabled,
                 generated_sentence, session_vars, trim_vars, ledger_vars, pure_vars>>

on_generate_sentence ==
  /\ Interactive
  /\ Len(generator_sources) # 0
  /\ \E index \in 1..Len(generator_sources) :
       \E k \in 1..Len(generator_sources[index][2]) :
         LET line == Strip(generator_sources[index][2][k])
         IN  /\ generated_sentence' = line
             /\ record_enabled' = check_record_enable(dataset_name, output_directory, line)
  /\ raised' = "none"
  /\ UNCHANGED <<disk, table, dataset_name, output_directory, update_enabled, generator_sources,
                 session_vars, trim_vars, ledger_vars, pure_vars>>

(***************************************************************************)
(* The ledger in the table.                                                *)
(***************************************************************************)
\* add_transcription: insertRow at the end and the two items
add_transcription(rows, recording_id, transcription) ==
  Append(rows, <<recording_id, transcription>>)

\* table.removeRow(r)
RemoveRow(rows, r) == SubSeq(rows, 1, r - 1) \o SubSeq(rows, r + 1, Len(rows))

\* the loop of on_remove_sentence over the selected items, each given by
\* the row it is in now (0: its row is gone and the item with it).  Asking
\* the table for the index of a deleted item either raises or gives row -1,
\* which removeRow ignores.
RECURSIVE RemoveSelected(_, _, _)
RemoveSelected(rows, items, dead_raises) ==
  IF items = <<>> THEN [ok |-> TRUE, rows |-> rows]
  ELSE LET r == items[1]
           rest == Tail(items)
       IN  IF r = 0
           THEN (IF dead_raises THEN [ok |-> FALSE, rows |-> rows]
                 ELSE RemoveSelected(rows, rest, dead_raises))
           ELSE RemoveSelected(
                  RemoveRow(rows, r),
                  [k \in 1..Len(rest) |->
                     IF rest[k] = r THEN 0
                     ELSE IF rest[k] > r THEN rest[k] - 1 ELSE rest[k]],
                  dead_raises)

\* the selections of cells of a table of n rows, as the rows of the selected
\* cells in the order selectedItems() gives them: a row has two cells
Selections(n) ==
  {sel \in UNION {[1..k -> 1..n] : k \in 1..MaxSelect} :
     \A r \in 1..n : Cardinality({k \in 1..Len(sel) : sel[k] = r}) <= 2}

\* the files after on_remove_sentence took old_rows to rows: only
\* create_transcript_csv touches the disk
RemoveDisk(dk, dir, ds, old_rows, rows) ==
  [dk EXCEPT ![dir][ds] = WithTranscript(@, rows)]

on_remove_sentence(selected_items, dead_raises) ==
  /\ Interactive
  /\ Len(selected_items) # 0
  /\ LET res == RemoveSelected(table, selected_items, dead_raises)
         written == res.ok /\ Dataset(disk, output_directory, dataset_name).dir
     IN  /\ table' = res.rows
         /\ disk' = IF written
                    THEN RemoveDisk(disk, output_directory, dataset_name, table, res.rows)
                    ELSE disk
         /\ raised' = IF written THEN "none"
                      ELSE IF res.ok THEN "FileNotFoundError" ELSE "RuntimeError"
  /\ UNCHANGED <<dataset_name, output_directory, update_enabled, record_enabled, generator_vars,
                 session_vars, trim_vars, ledger_vars, pure_vars>>

(***************************************************************************)
(* The recording session.                                                  *)
(***************************************************************************)
\* '{}{}.wav'.format(self.dataset_name.text(), new_row_index + 1)
WavName(name, new_row_index) == name \o Str(new_row_index + 1) \o DOT_WAV

\* wavspathout.replace(".wav", "").replace("wavs/", "")
ljspeechout(wavspathout) == Replace(Replace(wavspathout, DOT_WAV, <<>>), WAVS_SLASH, <<>>)

\* the recording id on_record_clicked gives the file it wrote
RecordingId(name, new_row_index) == ljspeechout(WAVS_SLASH \o WavName(name, new_row_index))

\* one buffer read from the stream
Buffer(level) == Tone(level, BufferMs)

\* the stream self.audio_stream can be read
Readable == audio_stream # 0 /\ audio_stream \in open_streams

\* a start that keeps the chunks of the recording before
StartFramesKept(fr) == fr

\* self.current_audio_recording_frames = []
StartFrames(fr) == <<>>

\* a stop that does not read the last buffer
UnflushedFrames(fr, data) == fr

\* on_audio_record_timer_tick(force=True): the last buffer is appended
FlushedFrames(fr, data) == Append(fr, data)

\* first click: self.audio_interface.open succeeds
record_start ==
  /\ ~is_recording
  /\ streams_opened < MaxStreams
  /\ is_recording' = TRUE
  /\ frames' = StartFrames(frames)
  /\ streams_opened' = streams_opened + 1
  /\ audio_stream' = streams_opened + 1
  /\ open_streams' = open_streams \cup {streams_opened + 1}
  /\ timer_active' = TRUE
  /\ start_sentence' = generated_sentence
  /\ raised' = "none"
  /\ UNCHANGED <<disk, table>>

\* first click: self.audio_interface.open raises
record_start_error ==
  /\ ~is_recording
  /\ is_recording' = TRUE
  /\ frames' = StartFrames(frames)
  /\ start_sentence' = generated_sentence
  /\ raised' = "DeviceError"
  /\ UNCHANGED <<disk, table, audio_stream, open_streams, streams_opened, timer_active>>

\* second click: the last read raises: AttributeError when there is no
\* stream, else the read of a closed stream or of a failing device
record_stop_error ==
  /\ is_recording
  /\ is_recording' = FALSE
  /\ start_sentence' = <<>>
  /\ raised' = IF audio_stream = 0 THEN "AttributeError" ELSE "DeviceError"
  /\ UNCHANGED <<disk, table, audio_stream, open_streams, streams_opened, frames, timer_active>>

\* second click: the last buffer is read, the stream closed, the file and
\* the row written
record_stop ==
  /\ is_recording
  /\ Readable
  /\ Len(table) < MaxRows
  /\ is_recording' = FALSE
  /\ \E level \in Levels :
       LET all_frames == FlushedFrames(frames, Buffer(level))
           new_row_index == Len(table)
           file == WavName(dataset_name, new_row_index)
           d == Dataset(disk, output_directory, dataset_name)
           rows == add_transcription(table, RecordingId(dataset_name, new_row_index),
                                     generated_sentence)
       IN  /\ frames' = all_frames
           /\ table' = rows
           /\ disk' = [disk EXCEPT ![output_directory][dataset_name] =
                         WithTranscript(
                           [d EXCEPT !.dir = TRUE, !.wavs_dir = TRUE,
                                     !.wavs = (file :> Concat(all_frames)) @@ d.wavs],
                           rows)]
  /\ open_streams' = open_streams \ {audio_stream}
  /\ timer_active' = FALSE
  /\ start_sentence' = <<>>
  /\ raised' = "none"
  /\ UNCHANGED <<audio_stream, streams_opened>>

\* what on_record_clicked leaves alone
record_frame ==
  UNCHANGED <<dataset_name, output_directory, update_enabled, record_enabled, generator_vars,
              trim_vars, ledger_vars, pure_vars>>

\* a click on Record while the capture device works
on_record_clicked ==
  /\ Interactive
  /\ record_enabled
  /\ \/ record_start
     \/ record_stop
  /\ record_frame

\* a click on Record that ends in an exception of the capture device
on_record_clicked_raises ==
  /\ Interactive
  /\ record_enabled
  /\ \/ record_start_error
     \/ record_stop_error
  /\ record_frame

\* a tick that reads a buffer although nothing is recorded
tick_idle_reads ==
  /\ ~is_recording
  /\ \E level \in Levels : frames' = Append(frames, Buffer(level))
  /\ raised' = "none"
  /\ UNCHANGED timer_active

\* the timer fires while nothing is recorded: it is stopped
tick_idle ==
  /\ ~is_recording
  /\ timer_active' = FALSE
  /\ raised' = "none"
  /\ UNCHANGED frames

\* the timer fires while recording: one buffer is read and kept
tick_read ==
  /\ is_recording
  /\ Readable
  /\ Len(frames) < MaxTicks
  /\ \E level \in Levels : frames' = Append(frames, Buffer(level))
  /\ raised' = "none"
  /\ UNCHANGED timer_active

\* the timer fires while recording and the read raises
tick_error ==
  /\ is_recording
  /\ raised' = "DeviceError"
  /\ UNCHANGED <<frames, timer_active>>

\* what on_audio_record_timer_tick leaves alone
tick_frame ==
  UNCHANGED <<disk, table, dataset_name, output_directory, update_enabled, record_enabled,
              generator_vars, is_recording, audio_stream, open_streams,
              streams_opened, start_sentence, trim_vars, ledger_vars, pure_vars>>

\* the timer fires and the read, if any, succeeds
on_audio_record_timer_tick ==
  /\ timer_active
  /\ \/ tick_idle
     \/ tick_read
  /\ tick_frame

\* the timer fires and the read raises
on_audio_record_timer_tick_raises ==
  /\ timer_active
  /\ tick_error
  /\ tick_frame

(***************************************************************************)
(* MainWindow.trim_silence, one step per loop iteration.  The progress     *)
(* dialog is modal: while it is up the widgets take no input, but its      *)
(* Cancel button does and timers still fire.                               *)
(***************************************************************************)
\* Process > Trim Silence is chosen (the menu is enabled while the table
\* has rows)
trim_silence ==
  /\ Interactive
  /\ Len(table) > 0
  /\ trim_pc' = "phase1"
  /\ trim_i' = 0
  /\ trimmed_Y' = <<>>
  /\ canceled' = FALSE
  /\ trim_writes' = 0
  /\ trim_result' = "none"
  /\ raised' = "none"
  /\ UNCHANGED <<disk, table, dataset_name, output_directory, update_enabled, record_enabled,
                 generator_vars, session_vars, ledger_vars, pure_vars>>

\* the user clicks Cancel in the progress dialog
trim_cancel ==
  /\ trim_pc # "idle"
  /\ ~canceled
  /\ canceled' = TRUE
  /\ UNCHANGED <<disk, table, dataset_name, output_directory, update_enabled, record_enabled,
                 generator_vars, session_vars, trim_pc, trim_i, trimmed_Y,
                 trim_writes, trim_result, raised, ledger_vars, pure_vars>>

\* trimmed_sound.export(filepath, ...)
Export(dk, dir, ds, name, sound) ==
  [dk EXCEPT ![dir][ds].wavs = (name :> sound) @@ dk[dir][ds].wavs]

\* a single-pass batch: the trimmed sound is exported as soon as computed
Phase1DiskExports(dk, dir, ds, name, sound) == Export(dk, dir, ds, name, sound)

\* the files after an iteration of the first loop: it reads the file and
\* keeps the trimmed sound in memory, nothing is written
Phase1Disk(dk, dir, ds, name, sound) == dk

\* one iteration of the first loop, or its end
trim_phase1 ==
  /\ trim_pc = "phase1"
  /\ IF trim_i < Len(table)
     THEN IF canceled
          THEN /\ trim_pc' = "idle"
               /\ trim_result' = "canceled"
               /\ raised' = "none"
               /\ UNCHANGED <<disk, trim_i, trimmed_Y>>
          ELSE LET here == Dataset(disk, output_directory, dataset_name)
                   found == ResolveWav(here, table[trim_i + 1][1])
               IN  IF found = <<>>
                   THEN /\ trim_pc' = "idle"
                        /\ trim_result' = "error"
                        /\ raised' = "FileNotFoundError"
                        /\ UNCHANGED <<disk, trim_i, trimmed_Y>>
                   ELSE LET sound == here.wavs[found[1]]
                            trimmed_sound == TrimSound(sound)
                        IN  /\ trimmed_Y' = Append(trimmed_Y,
                                 [dir |-> output_directory, ds |-> dataset_name,
                                  name |-> found[1], sound |-> trimmed_sound])
                            /\ disk' = Phase1Disk(disk, output_directory, dataset_name,
                                                  found[1], trimmed_sound)
                            /\ trim_i' = trim_i + 1
                            /\ trim_pc' = "phase1"
                            /\ UNCHANGED <<trim_result, raised>>
     ELSE /\ trim_pc' = "phase2"
          /\ trim_i' = 0
          /\ UNCHANGED <<disk, trimmed_Y, trim_result, raised>>
  /\ UNCHANGED <<table, dataset_name, output_directory, update_enabled, record_enabled,
                 generator_vars, session_vars, canceled, trim_writes,
                 ledger_vars, pure_vars>>

\* one iteration of the second loop, or its end
trim_phase2 ==
  /\ trim_pc = "phase2"
  /\ IF trim_i < Len(trimmed_Y)
     THEN LET y == trimmed_Y[trim_i + 1]
          IN  /\ disk' = Export(disk, y.dir, y.ds, y.name, y.sound)
              /\ trim_i' = trim_i + 1
              /\ trim_writes' = trim_writes + 1
              /\ trim_pc' = "phase2"
              /\ UNCHANGED <<trim_result, raised>>
     ELSE /\ trim_pc' = "idle"
          /\ trim_result' = "done"
          /\ raised' = "none"
          /\ UNCHANGED <<disk, trim_i, trim_writes>>
  /\ UNCHANGED <<table, dataset_name, output_directory, update_enabled, record_enabled,
                 generator_vars, session_vars, canceled, trimmed_Y,
                 ledger_vars, pure_vars>>

(***************************************************************************)
(* The application is quit and started again: the files stay.              *)
(***************************************************************************)
relaunch ==
  /\ Interactive
  /\ table' = <<>>
  /\ dataset_name' = <<>>
  /\ output_directory' = <<>>
  /\ update_enabled' = FALSE
  /\ record_enabled' = FALSE
  /\ generator_sources' = <<>>
  /\ generated_sentence' = <<>>
  /\ is_recording' = FALSE
  /\ audio_stream' = 0
  /\ open_streams' = {}
  /\ streams_opened' = streams_opened
  /\ frames' = <<>>
  /\ timer_active' = FALSE
  /\ start_sentence' = <<>>
  /\ trimmed_Y' = <<>>
  /\ trim_i' = 0
  /\ canceled' = FALSE
  /\ trim_writes' = 0
  /\ trim_result' = "none"
  /\ raised' = "none"
  /\ UNCHANGED <<disk, trim_pc, ledger_vars, pure_vars>>

(***************************************************************************)
(* Spec: the life of the ledger.  The user picks the directory /o, names   *)
(* datasets, updates the settings, generates sentences, records them with  *)
(* a working capture device, removes rows, and quits and restarts the      *)
(* application.                                                            *)
(***************************************************************************)
Next ==
  \/ \E n \in DatasetNames : edit_dataset_name(n)
  \/ \E path \in {DIR_O} : on_open_output_directory(path)
  \/ on_update_settings
  \/ \E f \in CorpusFiles : on_add_generator_source(f)
  \/ on_generate_sentence
  \/ on_record_clicked
  \/ \E sel \in Selections(Len(table)) : \E dead_raises \in BOOLEAN :
       on_remove_sentence(sel, dead_raises)
  \/ relaunch

Spec == Init /\ [][Next]_vars

(***************************************************************************)
(* SpecNoRemove: the runs in which no row is ever removed.  The user types *)
(* the name d or clears the name, and picks either directory or dismisses  *)
(* the directory dialog.                                                   *)
(***************************************************************************)
NextNoRemove ==
  \/ \E n \in {<<"d">>, <<>>} : edit_dataset_name(n)
  \/ \E path \in DialogResults : on_open_output_directory(path)
  \/ on_update_settings
  \/ \E f \in CorpusFiles : on_add_generator_source(f)
  \/ on_generate_sentence
  \/ on_record_clicked
  \/ relaunch

SpecNoRemove == Init /\ [][NextNoRemove]_vars

(***************************************************************************)
(* SpecSession: the recording session with a capture device that may       *)
(* fail, from the state in which dataset d was set up on an empty disk and *)
(* a sentence generated.                                                   *)
(***************************************************************************)
SourceS == <<"s", ReadLines(CorpusText("s"))>>

InitSession ==
  /\ disk = [EmptyDisk EXCEPT ![DIR_O][<<"d">>] =
                WithTranscript([NoDataset EXCEPT !.dir = TRUE], <<>>)]
  /\ table = <<>>
  /\ dataset_name = <<"d">>
  /\ output_directory = DIR_O
  /\ update_enabled = FALSE
  /\ record_enabled = TRUE
  /\ generator_sources = <<SourceS>>
  /\ generated_sentence = <<"h", "i">>
  /\ is_recording = FALSE
  /\ audio_stream = 0
  /\ open_streams = {}
  /\ streams_opened = 0
  /\ frames = <<>>
  /\ timer_active = FALSE
  /\ start_sentence = <<>>
  /\ trim_pc = "idle"
  /\ trim_i = 0
  /\ trimmed_Y = <<>>
  /\ canceled = FALSE
  /\ trim_writes = 0
  /\ trim_result = "none"
  /\ raised = "none"
  /\ ld_text = <<>>
  /\ ld_result = NotLoaded
  /\ PureIdle

NextSession ==
  \/ on_record_clicked
  \/ on_record_clicked_raises
  \/ on_audio_record_timer_tick
  \/ on_audio_record_timer_tick_raises
  \/ on_generate_sentence

SpecSession == InitSession /\ [][NextSession]_vars

(***************************************************************************)
(* SpecTrim: the silence-trim batch, from the state in which the seeded    *)
(* dataset e was loaded and a sentence generated.                          *)
(***************************************************************************)
SeededRows ==
  << <<WAVS_SLASH \o U2, <<"h", "i">> >>, <<WAVS_SLASH \o U10, <<"y", "o">> >> >>

InitTrim ==
  /\ disk = [SeededDisk EXCEPT ![DIR_O][<<"e">>] = WithTranscript(@, SeededRows)]
  /\ table = SeededRows
  /\ dataset_name = <<"e">>
  /\ output_directory = DIR_O
  /\ update_enabled = FALSE
  /\ record_enabled = TRUE
  /\ generator_sources = <<SourceS>>
  /\ generated_sentence = <<"h", "i">>
  /\ is_recording = FALSE
  /\ audio_stream = 0
  /\ open_streams = {}
  /\ streams_opened = 0
  /\ frames = <<>>
  /\ timer_active = FALSE
  /\ start_sentence = <<>>
  /\ trim_pc = "idle"
  /\ trim_i = 0
  /\ trimmed_Y = <<>>
  /\ canceled = FALSE
  /\ trim_writes = 0
  /\ trim_result = "none"
  /\ raised = "none"
  /\ ld_text = <<>>
  /\ ld_result = NotLoaded
  /\ PureIdle

NextTrim ==
  \/ trim_silence
  \/ trim_cancel
  \/ trim_phase1
  \/ trim_phase2
  \/ on_record_clicked
  \/ on_audio_record_timer_tick
  \/ \E sel \in Selections(Len(table)) : \E dead_raises \in BOOLEAN :
       on_remove_sentence(sel, dead_raises)

SpecTrim == InitTrim /\ [][NextTrim]_vars

(***************************************************************************)
(* SpecAll: every handler, from a fresh start.  Its state space is too     *)
(* large to exhaust; it serves to reach the initial states of SpecSession  *)
(* and SpecTrim.                                                           *)
(***************************************************************************)
InitAll ==
  /\ disk \in InitDisks \cup {SeededDisk}
  /\ WidgetInit
  /\ ld_text = <<>>
  /\ ld_result = NotLoaded
  /\ PureIdle

NextAll ==
  \/ Next
  \/ NextNoRemove
  \/ NextSession
  \/ NextTrim
  \/ \E selected \in SUBSET CorpusFiles : on_remove_generator_source(selected)

SpecAll == InitAll /\ [][NextAll]_vars

(***************************************************************************)
(* SpecLedger: the parsing of a ledger file on every short text.           *)
(***************************************************************************)
LedgerChars == {"a", "|", " ", "\n"}

LedgerTexts == UNION {[1..n -> LedgerChars] : n \in 0..MaxText}

InitLedger ==
  /\ disk = EmptyDisk
  /\ WidgetInit
  /\ ld_text \in LedgerTexts
  /\ ld_result = NotLoaded
  /\ PureIdle

\* the with-block of on_update_settings on the text of metadata.csv
load_transcript ==
  /\ ~ld_result.done
  /\ LET loaded == Load(ld_text)
     IN  ld_result' = [ok |-> loaded.ok, map |-> loaded.map, done |-> TRUE]
  /\ UNCHANGED <<disk, table, dataset_name, output_directory, update_enabled, record_enabled,
                 generator_vars, session_vars, trim_vars, raised, ld_text, pure_vars>>

NextLedger == load_transcript

SpecLedger == InitLedger /\ [][NextLedger]_vars

(***************************************************************************)
(* SpecSilence: detect_leading_silence on every short sound and chunk      *)
(* size.                                                                   *)
(***************************************************************************)
Sounds == UNION {[1..n -> Levels] : n \in 0..MaxSound}

InitSilence ==
  /\ disk = EmptyDisk
  /\ WidgetInit
  /\ ld_text = <<>>
  /\ ld_result = NotLoaded
  /\ dls_sound \in Sounds
  /\ dls_chunk \in 1..MaxChunk
  /\ dls_result = NotDetected
  /\ nk_names = {}
  /\ nk_result = NotSorted

\* detect_leading_silence(sound, chunk_size=dls_chunk) is called
detect_silence ==
  /\ ~dls_result.done
  /\ dls_result' = [done |-> TRUE,
                    trim_ms |-> detect_leading_silence(dls_sound, dls_chunk)]
  /\ UNCHANGED <<disk, table, dataset_name, output_directory, update_enabled, record_enabled,
                 generator_vars, session_vars, trim_vars, raised, ledger_vars,
                 dls_sound, dls_chunk, nk_names, nk_result>>

NextSilence == detect_silence

SpecSilence == InitSilence /\ [][NextSilence]_vars

(***************************************************************************)
(* SpecSort: sorted(names, key=natural_keys) on every set of one or two    *)
(* short file names, and on the names a2, a10, a1.                         *)
(***************************************************************************)
NameChars == {"a", "0", "1", "2"}

A1 == <<"a", "1">>
A2 == <<"a", "2">>
A10 == <<"a", "1", "0">>

\* the short names, and a10
Names == UNION {[1..n -> NameChars] : n \in 1..MaxName} \cup {A10}

\* the sets of one or two names, and {a2, a10, a1}
NameSets == {{x, y} : x \in Names, y \in Names} \cup {{A2, A10, A1}}

InitSort ==
  /\ disk = EmptyDisk
  /\ WidgetInit
  /\ ld_text = <<>>
  /\ ld_result = NotLoaded
  /\ dls_sound = <<>>
  /\ dls_chunk = chunk_size
  /\ dls_result = NotDetected
  /\ nk_names \in NameSets
  /\ nk_result = NotSorted

\* comparing the keys of two of the names raises TypeError
SortRaises(names) ==
  \E x \in names : \E y \in names :
    KeyCmp(natural_keys(x), natural_keys(y)) = "TypeError"

\* sorted(names, key=natural_keys) is called
sort_names ==
  /\ ~nk_result.done
  /\ IF SortRaises(nk_names)
     THEN nk_result' = [done |-> TRUE, raised |-> TRUE, files |-> <<>>]
     ELSE \E files \in SortedFiles(nk_names) :
            nk_result' = [done |-> TRUE, raised |-> FALSE, files |-> files]
  /\ UNCHANGED <<disk, table, dataset_name, output_directory, update_enabled, record_enabled,
                 generator_vars, session_vars, trim_vars, raised, ledger_vars,
                 dls_sound, dls_chunk, dls_result, nk_names>>

NextSort == sort_names

SpecSort == InitSort /\ [][NextSort]_vars

(***************************************************************************)
(* SpecGenerator: the sentence generator and its sources.                  *)
(***************************************************************************)
NextGenerator ==
  \/ \E f \in GeneratorFiles : on_add_generator_source(f)
  \/ \E selected \in SUBSET GeneratorFiles : on_remove_generator_source(selected)
  \/ on_generate_sentence
  \/ \E n \in NameTexts : edit_dataset_name(n)
  \/ \E path \in DialogResults : on_open_output_directory(path)

SpecGenerator == Init /\ [][NextGenerator]_vars

(***************************************************************************)
(* Properties.                                                             *)
(***************************************************************************)

\* C1: in the silence-trim batch no file is written before the trim of
\* every table row is computed: every step taken while the batch is in its
\* first loop leaves the files as they are, the second loop is entered only
\* with a trimmed sound for every row, and once the first loop sees the
\* cancellation the batch ends (canceled), so it ends with no file changed.
C1_NoWriteInPhase1 ==
  [][trim_pc = "phase1" =>
       /\ disk' = disk
       /\ trim_writes' = 0
       /\ (trim_pc' = "phase2" => ~(canceled /\ trim_i < Len(table))
                                  /\ Len(trimmed_Y') = Len(table))
       /\ (trim_phase1 /\ canceled /\ trim_i < Len(table)
             => trim_pc' = "idle" /\ trim_result' = "canceled")]_vars

\* C1 witness: a batch over two rows was canceled after the trim of the
\* first row was computed, and wrote nothing
C1_Witness ==
  /\ trim_pc = "idle"
  /\ trim_result = "canceled"
  /\ Len(table) = 2
  /\ trim_i = 1
  /\ Len(trimmed_Y) = 1
  /\ trimmed_Y[1].sound # disk[trimmed_Y[1].dir][trimmed_Y[1].ds].wavs[trimmed_Y[1].name]
  /\ trim_writes = 0

\* C3 as claimed: after a handler raised a device error the session is not
\* recording
C3_IdleAfterDeviceError == raised = "DeviceError" => ~is_recording

\* C4 as claimed: at most one capture stream is open, and one is open only
\* while the session is recording
C4_ExclusiveDevice ==
  /\ Cardinality(open_streams) <= 1
  /\ (open_streams # {} => is_recording)

\* C7: loading a ledger text with a line that has no '|' (a blank line
\* included) ends in an error and gives no mapping
HasBarlessLine(text) ==
  \E i \in 1..Len(ReadLines(text)) : "|" \notin Range(ReadLines(text)[i])

C7_BarlessLineRaises ==
  (ld_result.done /\ HasBarlessLine(ld_text)) => (~ld_result.ok /\ ld_result.map = <<>>)

\* C7 witness: a text with a well-formed line and then a blank line was
\* loaded, and the load raised
C7_Witness ==
  /\ ld_result.done
  /\ ld_text = <<"a", "|", "\n", "\n">>
  /\ ~ld_result.ok

\* the sentences the generator can show
Sentences ==
  UNION {{Strip(line) : line \in Range(ReadLines(CorpusText(f)))} : f \in CorpusFiles}

\* the lines of a dataset's metadata.csv
MetaLines(d) == IF d.meta_exists THEN Range(ReadLines(d.meta)) ELSE {}

\* the utterances of recordings made in dataset ds of directory dir that
\* metadata.csv lists and whose WAV file exists
RecordedUtterances(dk, dir, ds) ==
  {u \in {<<RecordingId(ds, k), t>> : k \in 0..(MaxRows - 1), t \in Sentences} :
     /\ FormatLine(u[1], u[2]) \in MetaLines(dk[dir][ds])
     /\ \E k \in 0..(MaxRows - 1) :
          u[1] = RecordingId(ds, k) /\ WavName(ds, k) \in DOMAIN dk[dir][ds].wavs}

\* C2 as claimed: in a run without a remove, every step keeps every recorded
\* and persisted utterance whose WAV file exists in metadata.csv, and an
\* update of the settings for its dataset has it in the table
C2_OnlyRemoveDestroys ==
  [][\A dir \in DialogResults : \A ds \in NameTexts :
       \A u \in RecordedUtterances(disk, dir, ds) :
         /\ FormatLine(u[1], u[2]) \in MetaLines(disk'[dir][ds])
         /\ (on_update_settings /\ output_directory = dir /\ dataset_name = ds
               /\ raised' = "none"
               => u \in Range(table'))]_vars

UniqueIds(rows) ==
  \A i \in 1..Len(rows) : \A j \in 1..Len(rows) : i # j => rows[i][1] # rows[j][1]

\* C5 as claimed: no two rows of the table have the same recording id
C5_UniqueRecordingIds == UniqueIds(table)

\* C6 as claimed: when no recording id of the table has a '|' (and no two
\* rows share an id), loading the text create_transcript_csv writes gives
\* the rows of the table in their order
C6_RoundTrip ==
  (UniqueIds(table) /\ \A i \in 1..Len(table) : "|" \notin Range(table[i][1]))
    => (Load(Persist(table)).ok /\ Load(Persist(table)).map = table)

\* what C8 claims the table to be after an update with wavs/ and
\* metadata.csv in place: one row per listed WAV file, in natural order
IsReconciled(rows, dir, ds, d) ==
  LET map == Load(d.meta).map
      Listed(n) == DictHas(map, WAVS_SLASH \o n)
  IN  /\ \A n \in GlobWav(DOMAIN d.wavs) :
           Listed(n) =>
             Cardinality({i \in 1..Len(rows) :
                rows[i] = <<WAVS_SLASH \o n, DictGet(map, WAVS_SLASH \o n)>>}) = 1
      /\ \A i \in 1..Len(rows) :
           \E n \in GlobWav(DOMAIN d.wavs) : Listed(n) /\ rows[i][1] = WAVS_SLASH \o n
      /\ \A i \in 1..Len(rows) : \A j \in 1..Len(rows) :
           i < j => KeyCmp(natural_keys(PathJoin(RootPath(dir, ds), rows[i][1])),
                           natural_keys(PathJoin(RootPath(dir, ds), rows[j][1])))
                      \in {"lt", "eq"}

\* C8 as claimed: an update of the settings that finds wavs/ and a
\* well-formed metadata.csv leaves exactly the reconciled rows in the table
C8_BootstrapReconciles ==
  [][(on_update_settings
        /\ Dataset(disk, output_directory, dataset_name).wavs_dir
        /\ Dataset(disk, output_directory, dataset_name).meta_exists
        /\ Load(Dataset(disk, output_directory, dataset_name).meta).ok)
       => IsReconciled(table', output_directory, dataset_name,
                       Dataset(disk, output_directory, dataset_name))]_vars

\* C9 as claimed: an update of the settings that finds wavs/ or
\* metadata.csv missing leaves the table empty
C9_BootstrapEmpty ==
  [][(on_update_settings
        /\ ~(Dataset(disk, output_directory, dataset_name).wavs_dir
             /\ Dataset(disk, output_directory, dataset_name).meta_exists))
       => table' = <<>>]_vars

\* rows2 is rows without its r-th row, the others in their order
IsWithoutRow(rows2, rows, r) ==
  /\ Len(rows2) = Len(rows) - 1
  /\ \A i \in 1..Len(rows2) : rows2[i] = IF i < r THEN rows[i] ELSE rows[i + 1]

\* C10 as claimed: removing the row of one selected cell leaves the other
\* rows in their order, and persisting and loading them gives exactly these
\* rows; an item whose row is already gone removes nothing more
C10_RemoveThenRoundTrip ==
  [][\A r \in 1..Len(table) : \A dead_raises \in BOOLEAN :
       (on_remove_sentence(<<r>>, dead_raises) \/ on_remove_sentence(<<r, r>>, dead_raises))
         => /\ IsWithoutRow(table', table, r)
            /\ Load(Persist(table')).ok
            /\ Load(Persist(table')).map = table']_vars

\* a step of on_remove_sentence
IsRemove ==
  \E sel \in Selections(Len(table)) : \E dead_raises \in BOOLEAN :
    on_remove_sentence(sel, dead_raises)

\* C11 as claimed: any remove leaves the WAV files of every dataset, and
\* their contents, as they were, and leaves metadata.csv of the current
\* dataset equal to the table that is left, rendered anew
C11_RemoveKeepsWavs ==
  [][IsRemove =>
       /\ \A dir \in DialogResults : \A ds \in NameTexts :
            /\ disk'[dir][ds].wavs = disk[dir][ds].wavs
            /\ disk'[dir][ds].wavs_dir = disk[dir][ds].wavs_dir
       /\ disk'[output_directory][dataset_name].meta_exists
       /\ disk'[output_directory][dataset_name].meta = Persist(table')]_vars

\* the file on_record_clicked writes when it stops a recording
NewWav == WavName(dataset_name, Len(table))

\* the row on_record_clicked adds when it stops a recording
NewRow == <<RecordingId(dataset_name, Len(table)), generated_sentence>>

\* C12 as claimed: a recording stopped before any timer tick writes a WAV
\* file with no audio and adds a row
C12_ImmediateStopZeroFrames ==
  [][(on_record_clicked /\ is_recording /\ frames = <<>>) =>
       /\ NewWav \in DOMAIN disk'[output_directory][dataset_name].wavs
       /\ Len(disk'[output_directory][dataset_name].wavs[NewWav]) = 0
       /\ table' = Append(table, NewRow)]_vars

\* C12 amended: a recording stopped before any timer tick writes a WAV
\* file that holds exactly the one buffer read when it is stopped, and adds
\* a row
C12_ImmediateStopOneBuffer ==
  [][(on_record_clicked /\ is_recording /\ frames = <<>>) =>
       /\ NewWav \in DOMAIN disk'[output_directory][dataset_name].wavs
       /\ \E level \in Levels : disk'[output_directory][dataset_name].wavs[NewWav] = Buffer(level)
       /\ table' = Append(table, NewRow)]_vars

\* C12 witness: the first recording was stopped with no tick in between:
\* its file is the one buffer of the last read, and its row is in the table
C12_Witness ==
  /\ ~is_recording
  /\ raised = "none"
  /\ Len(frames) = 1
  /\ table = <<<<RecordingId(<<"d">>, 0), <<"h", "i">>>>>>
  /\ WavName(<<"d">>, 0) \in DOMAIN disk[DIR_O][<<"d">>].wavs
  /\ disk[DIR_O][<<"d">>].wavs[WavName(<<"d">>, 0)] = frames[1]
  /\ Len(frames[1]) = BufferMs

\* C13 as claimed: once the batch was canceled in its second loop, no
\* further file is written
C13_CancelStopsPhase2 ==
  [][(trim_pc = "phase2" /\ canceled) => disk' = disk]_vars

\* the window of chunk milliseconds at offset t has a sample at or above
\* the threshold
LoudWindow(sound, t, chunk) ==
  \E i \in (t + 1)..Min(t + chunk, Len(sound)) : sound[i] # 0

\* C14 as claimed: on an all-silent sound of length L the offset returned
\* is L or the largest multiple of the chunk size that is at most L, so it
\* never exceeds L; on every sound the offset is a multiple of the chunk
\* size, every window before it is silent, and the scan stopped at a window
\* at or above the threshold or at the end of the sound
C14_SilentOffsetWithinLength ==
  dls_result.done =>
    LET L == Len(dls_sound)
        c == dls_chunk
        r == dls_result.trim_ms
    IN  /\ (\A i \in 1..L : dls_sound[i] = 0) =>
             /\ r <= L
             /\ (r = L \/ r = (L \div c) * c)
        /\ r % c = 0
        /\ \A k \in 0..((r \div c) - 1) : ~LoudWindow(dls_sound, k * c, c)
        /\ (r >= L \/ LoudWindow(dls_sound, r, c))

\* the maximal runs of digits and of non-digits of a name, none empty
RECURSIVE RunsOf(_)
RunsOf(name) ==
  IF name = <<>> THEN <<>>
  ELSE LET k == CHOOSE k \in 1..Len(name) :
                  /\ \A i \in 1..k : IsDigit(name[i]) = IsDigit(name[1])
                  /\ (k = Len(name) \/ IsDigit(name[k + 1]) # IsDigit(name[1]))
       IN  <<SubSeq(name, 1, k)>> \o RunsOf(SubSeq(name, k + 1, Len(name)))

\* the natural order of two lists of runs: run by run, digit runs as
\* integers and the others as strings, a list that ends first is smaller,
\* and a name that starts with digits comes before one that does not
RECURSIVE RunsCmp(_, _)
RunsCmp(a, b) ==
  IF a = <<>> /\ b = <<>> THEN "eq"
  ELSE IF a = <<>> THEN "lt"
  ELSE IF b = <<>> THEN "gt"
  ELSE IF IsDigit(a[1][1]) # IsDigit(b[1][1])
       THEN (IF IsDigit(a[1][1]) THEN "lt" ELSE "gt")
  ELSE IF IsDigit(a[1][1])
       THEN (IF IntOf(a[1]) = IntOf(b[1]) THEN RunsCmp(Tail(a), Tail(b))
             ELSE IF IntOf(a[1]) < IntOf(b[1]) THEN "lt" ELSE "gt")
  ELSE IF a[1] = b[1] THEN RunsCmp(Tail(a), Tail(b))
  ELSE IF StrLess(a[1], b[1]) THEN "lt" ELSE "gt"

\* the comparison of two names by their keys
NameCmp(x, y) == KeyCmp(natural_keys(x), natural_keys(y))

\* C15: the sort by natural_keys never raises, gives the names in the
\* natural order of their runs (digit runs as integers, the others as
\* strings), its comparison of keys is total, antisymmetric and transitive
\* (with every third name) and never meets an integer and a string, and
\* a2, a10, a1 come out as a1, a2, a10
C15_NaturalOrder ==
  nk_result.done =>
    /\ ~nk_result.raised
    /\ Len(nk_result.files) = Cardinality(nk_names)
    /\ Range(nk_result.files) = nk_names
    /\ \A i \in 1..Len(nk_result.files) : \A j \in 1..Len(nk_result.files) :
         i < j => RunsCmp(RunsOf(nk_result.files[i]), RunsOf(nk_result.files[j]))
                    \in {"lt", "eq"}
    /\ \A x \in nk_names : \A y \in nk_names :
         /\ NameCmp(x, y) \in {"lt", "eq", "gt"}
         /\ NameCmp(x, y) = RunsCmp(RunsOf(x), RunsOf(y))
         /\ (NameCmp(x, y) = "lt" <=> NameCmp(y, x) = "gt")
         /\ (NameCmp(x, y) = "eq" <=> natural_keys(x) = natural_keys(y))
         /\ \A z \in Names :
              (NameCmp(x, y) \in {"lt", "eq"} /\ NameCmp(y, z) \in {"lt", "eq"})
                => NameCmp(x, z) \in {"lt", "eq"}
    /\ (nk_names = {A2, A10, A1} => nk_result.files = <<A1, A2, A10>>)

\* C15 witness: the names a2, a10 and a1 were sorted
C15_Witness ==
  /\ nk_result.done
  /\ nk_names = {A2, A10, A1}
  /\ nk_result.files = <<A1, A2, A10>>

\* the lines with content of the registered sources, stripped
ContentLines(sources) ==
  UNION {{Strip(sources[i][2][k]) : k \in 1..Len(sources[i][2])} :
           i \in 1..Len(sources)} \ {<<>>}

\* C16 as claimed: every generated sentence is a line with content of a
\* source registered at the time, never the empty sentence, and with the
\* corpus a, b, c as the only source it is a, b or c
C16_PickReturnsContentLine ==
  [][on_generate_sentence =>
       /\ generated_sentence' # <<>>
       /\ generated_sentence' \in ContentLines(generator_sources)
       /\ ((Len(generator_sources) = 1 /\ generator_sources[1][1] = "t")
             => generated_sentence' \in {<<"a">>, <<"b">>, <<"c">>})]_vars

\* C17: the first click empties the frame list; while recording, a timer
\* tick appends exactly the buffer it read and no other step changes the
\* list; the second click writes to the file the chunks of the list in
\* their order followed by the buffer of its last read.  So the file holds
\* the chunks of the k ticks since the start and the last one, and none of
\* an earlier recording
C17_FileIsChunksOfCycle ==
  [][/\ ((on_record_clicked /\ ~is_recording) => frames' = <<>>)
     /\ ((on_audio_record_timer_tick /\ is_recording) =>
           \E level \in Levels : frames' = Append(frames, Buffer(level)))
     /\ ((is_recording /\ is_recording' /\ ~on_audio_record_timer_tick) =>
           frames' = frames)
     /\ ((on_record_clicked /\ is_recording) =>
           /\ NewWav \in DOMAIN disk'[output_directory][dataset_name].wavs
           /\ \E level \in Levels :
                disk'[output_directory][dataset_name].wavs[NewWav] = Concat(frames) \o Buffer(level))]_vars

\* C17 witness: two recordings were made, the first with one tick (a buffer
\* at full scale, then a silent last buffer), the second with none: the
\* second file holds its one buffer only
C17_Witness ==
  /\ ~is_recording
  /\ Len(table) = 2
  /\ WavName(<<"d">>, 0) \in DOMAIN disk[DIR_O][<<"d">>].wavs
  /\ WavName(<<"d">>, 1) \in DOMAIN disk[DIR_O][<<"d">>].wavs
  /\ disk[DIR_O][<<"d">>].wavs[WavName(<<"d">>, 0)] = Buffer(1) \o Buffer(0)
  /\ disk[DIR_O][<<"d">>].wavs[WavName(<<"d">>, 1)] = Buffer(1)

\* C18: a timer tick while the session is not recording reads nothing and
\* appends nothing: it leaves the recording flag, the stream, the frame
\* list, the table and the files as they were, and raises nothing
C18_IdleTickIsNoOp ==
  [][((on_audio_record_timer_tick \/ on_audio_record_timer_tick_raises) /\ ~is_recording) =>
       /\ frames' = frames
       /\ is_recording' = is_recording
       /\ audio_stream' = audio_stream
       /\ open_streams' = open_streams
       /\ table' = table
       /\ disk' = disk
       /\ raised' = "none"]_vars

\* C18 witness: a stop failed at its last read, which left the timer
\* running with the session not recording; the next tick stopped the timer
\* and changed nothing else
C18_Witness ==
  /\ ~is_recording
  /\ ~timer_active
  /\ open_streams # {}
  /\ raised = "none"
  /\ table = <<>>
  /\ frames = <<>>

\* the WAV files of dataset ds that a recording id of the rows names, in
\* the form with wavs/ and .wav or in the bare form
ListedWavs(rows, dir, ds) ==
  {n \in DOMAIN disk[dir][ds].wavs :
     \E i \in 1..Len(rows) :
       rows[i][1] \in {WAVS_SLASH \o n, ljspeechout(WAVS_SLASH \o n)}}

\* C19 as claimed: the file and the recording id that a stop derives from
\* the number of rows are those of no row of the table
C19_StopNeverOverwrites ==
  [][(on_record_clicked /\ is_recording) =>
       /\ \A i \in 1..Len(table) : table[i][1] # NewRow[1]
       /\ NewWav \notin ListedWavs(table, output_directory, dataset_name)]_vars

\* C20: when a stop, a remove or an update of the settings completes,
\* metadata.csv of the current dataset is the table rendered in order, one
\* line per row
C20_FileIsLedger ==
  [][(((on_record_clicked /\ is_recording) \/ IsRemove \/ on_update_settings)
        /\ raised' = "none") =>
       /\ disk'[output_directory'][dataset_name'].meta_exists
       /\ disk'[output_directory'][dataset_name'].meta = Persist(table')
       /\ ReadLines(disk'[output_directory'][dataset_name'].meta) =
            [i \in 1..Len(table') |-> table'[i][1] \o <<"|">> \o table'[i][2] \o <<"\n">>]]_vars

\* C20 witness: in dataset e a row was loaded, a second one recorded and
\* the first removed; metadata.csv lists the one row that is left
C20_Witness ==
  /\ dataset_name = <<"e">>
  /\ raised = "none"
  /\ Len(table) = 1
  /\ table[1][1] = RecordingId(<<"e">>, 1)
  /\ disk[DIR_O][<<"e">>].meta = table[1][1] \o <<"|">> \o table[1][2] \o <<"\n">>

\* C21 as claimed: the transcription of the row a stop adds is the sentence
\* that was shown when the recording was started
C21_TranscriptionIsPromptAtStart ==
  [][(on_record_clicked /\ is_recording) =>
       /\ Len(table') = Len(table) + 1
       /\ table'[Len(table')][2] = start_sentence]_vars

=============================================================================
